---- MODULE Spec2Model ----
(***************************************************************************)
(* Wallet risk scoring pipeline of scripts/risk_utils.py:                  *)
(*   load_and_preprocess_data -> create_advanced_wallet_features ->        *)
(*   calculate_advanced_risk_score -> apply_ml_refinements ->              *)
(*   calculate_final_risk_score.                                           *)
(* pandas float64 cells are modelled as exact rationals or NaN.            *)
(***************************************************************************)
EXTENDS Integers, Sequences, FiniteSets, TLC

VARIABLES
    pc,                      \* position in the pipeline
    file_exists,             \* whether the csv at filepath exists
    raw,                     \* the csv as read: its columns and its rows of raw cells
    df_clean,                \* the table load_and_preprocess_data returned
    wallet_id,               \* column wallet_id of the wallet table
    cols,                    \* feature columns of the wallet table (df.columns minus wallet_id and score columns)
    features,                \* the wallet feature table: one row per wallet, a function cols -> number
    base_risk_score,         \* column base_risk_score (<<>> until the scorer ran)
    is_anomaly,              \* column is_anomaly
    cluster,                 \* column cluster
    cluster_risk_adjustment, \* column cluster_risk_adjustment
    final_risk_score         \* column produced by calculate_final_risk_score

vars == <<pc, file_exists, raw, df_clean, wallet_id, cols, features, base_risk_score, is_anomaly, cluster,
          cluster_risk_adjustment, final_risk_score>>

(***************************************************************************)
(* float64 cells: an exact rational n/d (d > 0, lowest terms) or NaN.     *)
(***************************************************************************)
NaN == [nan |-> TRUE, n |-> 0, d |-> 1]

Abs(x) == IF x < 0 THEN -x ELSE x

RECURSIVE GCD(_, _)
GCD(a, b) == IF b = 0 THEN a ELSE GCD(b, a % b)

Rat(n, d) ==
    LET g == GCD(Abs(n), d)
    IN  [nan |-> FALSE, n |-> n \div g, d |-> d \div g]

Int2Num(i) == [nan |-> FALSE, n |-> i, d |-> 1]

Zero == Int2Num(0)

RAdd(x, y) == IF x.nan \/ y.nan THEN NaN ELSE Rat(x.n * y.d + y.n * x.d, x.d * y.d)

RSub(x, y) == IF x.nan \/ y.nan THEN NaN ELSE Rat(x.n * y.d - y.n * x.d, x.d * y.d)

RMul(x, y) == IF x.nan \/ y.nan THEN NaN ELSE Rat(x.n * y.n, x.d * y.d)

\* float division: 0/0 is NaN.  x/0 with x # 0 (an infinity) does not arise:
\* every divisor here is a mean of non-negative numbers that bounds the dividend.
RDiv(x, y) ==
    IF x.nan \/ y.nan \/ y.n = 0 THEN NaN
    ELSE IF y.n > 0 THEN Rat(x.n * y.d, x.d * y.n)
    ELSE Rat(-(x.n * y.d), x.d * (-y.n))

\* comparisons with NaN are False, as in IEEE 754
RGt(x, y) == ~x.nan /\ ~y.nan /\ x.n * y.d > y.n * x.d

RLe(x, y) == ~x.nan /\ ~y.nan /\ x.n * y.d <= y.n * x.d

\* np.minimum / np.maximum propagate NaN
RMin(x, y) == IF x.nan \/ y.nan THEN NaN ELSE IF RLe(x, y) THEN x ELSE y

RMax(x, y) == IF x.nan \/ y.nan THEN NaN ELSE IF RLe(x, y) THEN y ELSE x

\* sum of a number-valued function over a finite index set (no NaN skipping)
RECURSIVE RSum(_, _)
RSum(f, S) ==
    IF S = {} THEN Zero
    ELSE LET i == CHOOSE j \in S : TRUE
         IN  RAdd(f[i], RSum(f, S \ {i}))

\* pandas sum with skipna=True: NaN entries are left out, an empty sum is 0
NanSum(f, S) == RSum(f, {i \in S : ~f[i].nan})

\* pandas mean with skipna=True: NaN entries are left out, an empty mean is NaN
\* plain mean (0/0 = NaN over no entries)
Mean(f, S) == RDiv(RSum(f, S), Int2Num(Cardinality(S)))

NanMean(f, S) == Mean(f, {i \in S : ~f[i].nan})

Wallets(tbl) == 1..Len(tbl)

(***************************************************************************)
(* load_and_preprocess_data                                                *)
(***************************************************************************)
Null == "null"

relevant_columns ==
    {"from", "to", "value", "gas", "gasPrice", "gasUsed", "timeStamp", "isError",
     "txreceipt_status", "functionName", "wallet_address", "protocol_version",
     "methodId", "blockNumber"}

\* columns whose cells the model carries (the others are never read after the loader)
RowFields == {"wallet_address", "from", "to", "value", "gasUsed", "gasPrice",
              "timeStamp", "isError", "functionName"}

\* pd.to_numeric(errors='coerce') on one raw cell: a decimal literal parses,
\* anything else (text, an empty cell) becomes NaN
to_numeric(cell) ==
    CASE cell = "0" -> Int2Num(0)
      [] cell = "1" -> Int2Num(1)
      [] cell = "2" -> Int2Num(2)
      [] cell = "3" -> Int2Num(3)
      [] OTHER -> NaN

fillna_str(cell, sentinel) == IF cell = Null THEN sentinel ELSE cell

EmptyFrame == [columns |-> {}, rows |-> <<>>]

\* rows i of s for which keep[i], in order
RECURSIVE SelectRows(_, _)
SelectRows(s, keep) ==
    IF s = <<>> THEN <<>>
    ELSE LET rest == SelectRows(Tail(s), [i \in 1..(Len(s) - 1) |-> keep[i + 1]])
         IN  IF keep[1] THEN <<Head(s)>> \o rest ELSE rest

\* the conversions of lines 27-38, each applied only when its column exists
convert_row(r, existing_columns) ==
    [wallet_address |-> r.wallet_address,
     from           |-> r.from,
     to             |-> r.to,
     value          |-> IF "value" \in existing_columns THEN to_numeric(r.value) ELSE r.value,
     gasUsed        |-> IF "gasUsed" \in existing_columns THEN to_numeric(r.gasUsed) ELSE r.gasUsed,
     gasPrice       |-> IF "gasPrice" \in existing_columns THEN to_numeric(r.gasPrice) ELSE r.gasPrice,
     timeStamp      |-> r.timeStamp,
     isError        |-> r.isError,
     functionName   |-> IF "functionName" \in existing_columns
                        THEN fillna_str(r.functionName, "unknown") ELSE r.functionName]

\* raised: df_clean.dropna(subset=['value']) raises KeyError without a value column
load_and_preprocess_data(exists, csv) ==
    IF ~exists THEN [found |-> FALSE, raised |-> FALSE, df |-> EmptyFrame]
    ELSE LET existing_columns == relevant_columns \cap csv.columns
             converted == [i \in DOMAIN csv.rows |-> convert_row(csv.rows[i], existing_columns)]
         IN  IF "value" \notin existing_columns
             THEN [found |-> TRUE, raised |-> TRUE, df |-> EmptyFrame]
             ELSE [found |-> TRUE, raised |-> FALSE,
                   df |-> [columns |-> existing_columns,
                           rows |-> SelectRows(converted,
                                       [i \in DOMAIN converted |-> ~converted[i].value.nan])]]

(***************************************************************************)
(* create_advanced_wallet_features                                         *)
(***************************************************************************)
FeatureNames ==
    {"total_transactions", "sent_transactions", "received_transactions",
     "send_receive_ratio", "total_value_sent", "total_value_received",
     "avg_transaction_value", "max_transaction_value", "value_std", "zero_value_ratio",
     "avg_gas_used", "total_gas_cost", "error_rate", "avg_time_between_txns_hr",
     "activity_span_days", "transaction_frequency", "unique_recipients",
     "unique_senders", "recipient_concentration", "unique_functions",
     "contract_complexity"}

Max(a, b) == IF a >= b THEN a ELSE b

wallet_col(df) ==
    IF "wallet_address" \in df.columns
       /\ \E i \in DOMAIN df.rows : df.rows[i].wallet_address # Null
    THEN "wallet_address" ELSE "from"

\* df[wallet_col].dropna().unique(): the distinct non-null identifiers, in order
\* of first appearance
RECURSIVE unique_ids(_, _, _)
unique_ids(rows, wc, seen) ==
    IF rows = <<>> THEN <<>>
    ELSE LET w == Head(rows)[wc]
         IN  IF w = Null \/ w \in seen
             THEN unique_ids(Tail(rows), wc, seen)
             ELSE <<w>> \o unique_ids(Tail(rows), wc, seen \cup {w})

all_wallets(df) == unique_ids(df.rows, wallet_col(df), {})

wallet_txns(df, w) == {i \in DOMAIN df.rows : df.rows[i][wallet_col(df)] = w}

\* pd.DataFrame() (no rows, no columns) when the table has no 'from' column
sent_txns(df, w) ==
    IF "from" \in df.columns THEN {i \in wallet_txns(df, w) : df.rows[i].from = w} ELSE {}

\* mutant: the lookup is restricted to the wallet's own rows
received_txns_own_rows(df, w) ==
    IF "to" \in df.columns THEN {i \in wallet_txns(df, w) : df.rows[i].to = w} ELSE {}

\* rows of the whole table, not of the wallet's own rows
received_txns(df, w) ==
    IF "to" \in df.columns THEN {i \in DOMAIN df.rows : df.rows[i].to = w} ELSE {}

ColumnOf(df, c) == [i \in DOMAIN df.rows |-> df.rows[i][c]]

\* the timestamps of the rows S in ascending order (sort_values('timeStamp'))
RECURSIVE time_sorted(_, _)
time_sorted(df, S) ==
    IF S = {} THEN <<>>
    ELSE LET i == CHOOSE j \in S : \A k \in S : df.rows[j].timeStamp <= df.rows[k].timeStamp
         IN  <<df.rows[i].timeStamp>> \o time_sorted(df, S \ {i})

\* Series.std(): the sample standard deviation (ddof=1), NaN for fewer than two
\* values.  The cell holds the variance, the square of the value pandas stores.
sample_std(f, S) ==
    LET n == Cardinality(S)
    IN  IF n < 2 THEN NaN
        ELSE RDiv(RSub(RMul(Int2Num(n), RSum([i \in S |-> RMul(f[i], f[i])], S)),
                       RMul(RSum(f, S), RSum(f, S))),
                  Int2Num(n * (n - 1)))

\* mutant: the whole-day span without its floor of 1
activity_span_days_unfloored(df, S) ==
    IF Cardinality(S) > 1
    THEN (time_sorted(df, S)[Cardinality(S)] - time_sorted(df, S)[1]) \div 86400
    ELSE 1

activity_span_days(df, S) ==
    IF Cardinality(S) > 1
    THEN LET ts == time_sorted(df, S)
         IN  Max((ts[Len(ts)] - ts[1]) \div 86400, 1)
    ELSE 1

avg_time_between_txns_hr(df, S) ==
    IF Cardinality(S) > 1
    THEN LET ts == time_sorted(df, S)
             time_diffs == [k \in 1..(Len(ts) - 1) |-> Int2Num(ts[k + 1] - ts[k])]
         IN  RDiv(Mean(time_diffs, DOMAIN time_diffs), Int2Num(3600))
    ELSE Zero

transaction_frequency(df, S) ==
    IF Cardinality(S) > 1
    THEN Rat(Cardinality(S), activity_span_days(df, S))
    ELSE Int2Num(1)

send_receive_ratio(n_sent, n_received) == Rat(n_sent, Max(n_received, 1))

\* one row of the wallet table (features['wallet_id'] is kept in wallet_id)
wallet_features(df, w) ==
    LET W     == wallet_txns(df, w)
        sent  == sent_txns(df, w)
        recv  == received_txns(df, w)
        value == ColumnOf(df, "value")
        gas   == "gasUsed" \in df.columns /\ "gasPrice" \in df.columns
        gas_costs == [i \in W |-> RMul(df.rows[i].gasUsed, df.rows[i].gasPrice)]
        unique_recipients == IF sent # {} THEN Cardinality({df.rows[i].to : i \in sent} \ {Null}) ELSE 0
        unique_senders    == IF recv # {} THEN Cardinality({df.rows[i].from : i \in recv} \ {Null}) ELSE 0
        fn_counts == {Cardinality({j \in W : df.rows[j].functionName = df.rows[i].functionName}) : i \in W}
        dominant  == CHOOSE m \in fn_counts : \A k \in fn_counts : k <= m
    IN  [f \in FeatureNames |->
          CASE f = "total_transactions"    -> Int2Num(Cardinality(W))
            [] f = "sent_transactions"     -> Int2Num(Cardinality(sent))
            [] f = "received_transactions" -> Int2Num(Cardinality(recv))
            [] f = "send_receive_ratio"    -> send_receive_ratio(Cardinality(sent), Cardinality(recv))
            [] f = "total_value_sent"      -> NanSum(value, sent)
            [] f = "total_value_received"  -> NanSum(value, recv)
            [] f = "avg_transaction_value" -> NanMean(value, W)
            [] f = "max_transaction_value" ->
                   CHOOSE v \in {value[i] : i \in W} : \A i \in W : RLe(value[i], v)
            [] f = "value_std"             -> sample_std(value, W)
            [] f = "zero_value_ratio"      -> Rat(Cardinality({i \in W : value[i].n = 0}), Cardinality(W))
            [] f = "avg_gas_used"          -> IF gas THEN NanMean(ColumnOf(df, "gasUsed"), W) ELSE Zero
            [] f = "total_gas_cost"        -> IF gas THEN NanSum(gas_costs, W) ELSE Zero
            [] f = "error_rate"            ->
                   IF gas /\ "isError" \in df.columns
                   THEN Rat(Cardinality({i \in W : df.rows[i].isError = 1}), Cardinality(W))
                   ELSE Zero
            [] f = "avg_time_between_txns_hr" -> avg_time_between_txns_hr(df, W)
            [] f = "activity_span_days"    -> Int2Num(activity_span_days(df, W))
            [] f = "transaction_frequency" -> transaction_frequency(df, W)
            [] f = "unique_recipients"     -> Int2Num(unique_recipients)
            [] f = "unique_senders"        -> Int2Num(unique_senders)
            [] f = "recipient_concentration" -> Rat(Cardinality(sent), Max(unique_recipients, 1))
            [] f = "unique_functions"      ->
                   IF "functionName" \in df.columns
                   THEN Int2Num(Cardinality({df.rows[i].functionName : i \in W})) ELSE Zero
            [] f = "contract_complexity"   ->
                   IF "functionName" \in df.columns
                   THEN RSub(Int2Num(1), Rat(dominant, Cardinality(W))) ELSE Zero]

\* the column lookups that raise KeyError: the identifier column (line 45-46),
\* sent_txns['value'] on the column-less frame (line 63), received_txns['value']
\* on the column-less frame (line 64), wallet_txns['value'] (line 65) and
\* sort_values('timeStamp') (line 77)
features_KeyError(df) ==
    \/ wallet_col(df) \notin df.columns
    \/ \E k \in DOMAIN all_wallets(df) :
          \/ "from" \notin df.columns
          \/ "to" \notin df.columns
          \/ "value" \notin df.columns
          \/ /\ "timeStamp" \notin df.columns
             /\ Cardinality(wallet_txns(df, all_wallets(df)[k])) > 1

create_advanced_wallet_features(df) ==
    IF features_KeyError(df)
    THEN [raised |-> TRUE, wallet_id |-> <<>>, rows |-> <<>>]
    ELSE [raised |-> FALSE,
          wallet_id |-> all_wallets(df),
          rows |-> [k \in DOMAIN all_wallets(df) |-> wallet_features(df, all_wallets(df)[k])]]

(***************************************************************************)
(* calculate_advanced_risk_score                                           *)
(***************************************************************************)
\* MinMaxScaler.fit_transform: per column, NaN is ignored in fit and kept in
\* transform; data_min/data_max of an all-NaN column are NaN; a constant column
\* has its zero range replaced by 1.
SetMin(S) == IF S = {} THEN NaN ELSE CHOOSE v \in S : \A u \in S : RLe(v, u)

SetMax(S) == IF S = {} THEN NaN ELSE CHOOSE v \in S : \A u \in S : RLe(u, v)

data_min(tbl, c) == SetMin({tbl[j][c] : j \in {k \in Wallets(tbl) : ~tbl[k][c].nan}})

data_max(tbl, c) == SetMax({tbl[j][c] : j \in {k \in Wallets(tbl) : ~tbl[k][c].nan}})

MinMaxScale(x, lo, hi) ==
    IF x.nan \/ lo.nan THEN NaN
    ELSE IF hi = lo THEN RSub(x, lo) ELSE RDiv(RSub(x, lo), RSub(hi, lo))

transform(tbl, fcols, lo, hi) ==
    [i \in Wallets(tbl) |-> [c \in fcols |-> MinMaxScale(tbl[i][c], lo[c], hi[c])]]

features_scaled(tbl, fcols) ==
    transform(tbl, fcols, [c \in fcols |-> data_min(tbl, c)], [c \in fcols |-> data_max(tbl, c)])

Components == {"volume_risk", "behavioral_risk", "technical_risk", "temporal_risk", "diversity_risk"}

risk_components ==
    [c \in Components |->
        CASE c = "volume_risk" ->
               [features |-> {"total_transactions", "total_value_sent", "max_transaction_value"},
                weight |-> Rat(20, 100)]
          [] c = "behavioral_risk" ->
               [features |-> {"send_receive_ratio", "recipient_concentration", "transaction_frequency"},
                weight |-> Rat(25, 100)]
          [] c = "technical_risk" ->
               [features |-> {"avg_gas_used", "total_gas_cost", "error_rate"},
                weight |-> Rat(20, 100)]
          [] c = "temporal_risk" ->
               [features |-> {"avg_time_between_txns_hr"},
                weight |-> Rat(15, 100)]
          [] c = "diversity_risk" ->
               [features |-> {"unique_recipients", "unique_senders", "unique_functions", "contract_complexity"},
                weight |-> Rat(20, 100)]]

\* one component's column of risk_scores for one wallet (a scaled row)
available_features(fcols, c) == risk_components[c].features \cap fcols

component_score(srow, fcols, c) ==
    IF available_features(fcols, c) # {}
    THEN RMul(NanMean(srow, available_features(fcols, c)), risk_components[c].weight)
    ELSE Zero

\* risk_scores.sum(axis=1): the weighted sum before the adjustments
weighted_sum(srow, fcols) ==
    NanSum([c \in Components |-> component_score(srow, fcols, c)], Components)

ErrorRateBoost == Rat(13, 10)

ZeroValueBoost == Rat(12, 10)

FrequencyBoost == Rat(14, 10)

\* base_score[features_scaled[col] > threshold] *= factor, when the column exists
boost(score, srow, fcols, col, threshold, factor) ==
    IF col \in fcols /\ RGt(srow[col], threshold) THEN RMul(score, factor) ELSE score

\* mutant: an if/elif chain, only the first boost that applies is taken
adjusted_score_first_only(srow, fcols) ==
    IF "error_rate" \in fcols /\ RGt(srow["error_rate"], Rat(1, 10))
    THEN RMul(weighted_sum(srow, fcols), ErrorRateBoost)
    ELSE IF "zero_value_ratio" \in fcols /\ RGt(srow["zero_value_ratio"], Rat(5, 10))
    THEN RMul(weighted_sum(srow, fcols), ZeroValueBoost)
    ELSE IF "transaction_frequency" \in fcols /\ RGt(srow["transaction_frequency"], Rat(95, 100))
    THEN RMul(weighted_sum(srow, fcols), FrequencyBoost)
    ELSE weighted_sum(srow, fcols)

adjusted_score(srow, fcols) ==
    LET b0 == weighted_sum(srow, fcols)
        b1 == boost(b0, srow, fcols, "error_rate", Rat(1, 10), ErrorRateBoost)
        b2 == boost(b1, srow, fcols, "zero_value_ratio", Rat(5, 10), ZeroValueBoost)
        b3 == boost(b2, srow, fcols, "transaction_frequency", Rat(95, 100), FrequencyBoost)
    IN  b3

\* mutant: base_score * 1000 without the cap
uncapped_scores(scaled, fcols) ==
    [i \in DOMAIN scaled |-> RMul(adjusted_score(scaled[i], fcols), Int2Num(1000))]

\* np.minimum(base_score * 1000, 1000) over the rows of features_scaled
capped_scores(scaled, fcols) ==
    [i \in DOMAIN scaled |->
        RMin(RMul(adjusted_score(scaled[i], fcols), Int2Num(1000)), Int2Num(1000))]

calculate_advanced_risk_score(tbl, fcols) ==
    capped_scores(features_scaled(tbl, fcols), fcols)

(***************************************************************************)
(* apply_ml_refinements                                                    *)
(***************************************************************************)
n_clusters == 5

\* X = df[feature_cols_anomaly].fillna(0): a copy of the feature columns
fillna0(x) == IF x.nan THEN Zero ELSE x

X_matrix(tbl, fcols) == [i \in Wallets(tbl) |-> [c \in fcols |-> fillna0(tbl[i][c])]]

\* What IsolationForest.fit_predict and KMeans.fit_predict can return for X.
\* Both predict from the row alone, so equal rows get equal outputs.  KMeans
\* numbers its clusters arbitrarily within 0..n_clusters-1; the numbering is
\* taken up to renaming, clusters being numbered in order of first appearance.
first_appearance(labels) ==
    \A i \in DOMAIN labels : \/ labels[i] = 0
                              \/ \E j \in 1..(i - 1) : labels[j] = labels[i] - 1

predictions(X, rows) ==
    {[i \in DOMAIN X |-> p[X[i]]] : p \in [rows -> BOOLEAN]}

labellings(X, rows) ==
    {l \in {[i \in DOMAIN X |-> k[X[i]]] : k \in [rows -> 0..(n_clusters - 1)]} :
        first_appearance(l)}

sklearn_outputs(X) ==
    [pred : predictions(X, {X[i] : i \in DOMAIN X}),
     labels : labellings(X, {X[i] : i \in DOMAIN X})]

\* df.groupby('cluster')['base_risk_score'].mean() / df['base_risk_score'].mean(),
\* mapped back onto the rows
ratio_to(base, labels, population_mean) ==
    [i \in DOMAIN base |->
        RDiv(Mean(base, {j \in DOMAIN base : labels[j] = labels[i]}), population_mean)]

cluster_risk_adj(base, labels) == ratio_to(base, labels, Mean(base, DOMAIN base))

\* the table after apply_ml_refinements, given what the two sklearn models returned
apply_ml_refinements(tbl, fcols, base, o) ==
    [features                |-> tbl,
     base_risk_score         |-> base,
     is_anomaly              |-> o.pred,
     cluster                 |-> o.labels,
     cluster_risk_adjustment |-> cluster_risk_adj(base, o.labels)]

(***************************************************************************)
(* calculate_final_risk_score                                              *)
(***************************************************************************)
AnomalyBoost == Rat(15, 10)

\* numpy round(0): to the nearest integer, ties to the even one (x is not NaN)
round0(x) ==
    LET fl == x.n \div x.d
        r2 == 2 * (x.n - fl * x.d)
    IN  IF r2 < x.d THEN fl
        ELSE IF r2 > x.d THEN fl + 1
        ELSE IF fl % 2 = 0 THEN fl ELSE fl + 1

\* mutant: the score is clamped after the anomaly boost as well
final_scores_clamp_each(base, anomaly, adj) ==
    [i \in DOMAIN base |->
        RMul(IF anomaly[i]
             THEN RMin(RMul(base[i], Rat(15, 10)), Int2Num(1000))
             ELSE base[i],
             adj[i])]

final_scores(base, anomaly, adj) ==
    [i \in DOMAIN base |->
        RMul(IF anomaly[i] THEN RMul(base[i], AnomalyBoost) ELSE base[i], adj[i])]

clamp_score(x) == RMin(RMax(x, Zero), Int2Num(1000))

\* .round(0).astype(int) raises on a column that holds NaN; raised = TRUE then
clamped_scores(scores) == [i \in DOMAIN scores |-> clamp_score(scores[i])]

astype_int(clamped, base) ==
    IF \E i \in DOMAIN clamped : clamped[i].nan
    THEN [raised |-> TRUE, result |-> <<>>, base_risk_score |-> base]
    ELSE [raised |-> FALSE, result |-> [i \in DOMAIN clamped |-> round0(clamped[i])],
          base_risk_score |-> base]

\* mutant: the multipliers are applied to the base_risk_score column itself
\* (no .copy())
calculate_final_risk_score_in_place(base, anomaly, adj) ==
    astype_int(clamped_scores(final_scores(base, anomaly, adj)), final_scores(base, anomaly, adj))

calculate_final_risk_score(base, anomaly, adj) ==
    astype_int(clamped_scores(final_scores(base, anomaly, adj)), base)

(***************************************************************************)
(* Pipeline steps over the wallet table                                    *)
(***************************************************************************)
LoadMissing ==
    /\ pc = "start"
    /\ ~load_and_preprocess_data(file_exists, raw).found
    /\ df_clean' = load_and_preprocess_data(file_exists, raw).df
    /\ pc' = "empty"
    /\ UNCHANGED <<file_exists, raw, wallet_id, cols, features, base_risk_score, is_anomaly,
                   cluster, cluster_risk_adjustment, final_risk_score>>

LoadFail ==
    /\ pc = "start"
    /\ load_and_preprocess_data(file_exists, raw).raised
    /\ pc' = "load_error"
    /\ UNCHANGED <<file_exists, raw, df_clean, wallet_id, cols, features, base_risk_score,
                   is_anomaly, cluster, cluster_risk_adjustment, final_risk_score>>

Load ==
    /\ pc = "start"
    /\ LET r == load_and_preprocess_data(file_exists, raw)
       IN  /\ r.found
           /\ ~r.raised
           /\ df_clean' = r.df
    /\ pc' = "clean"
    /\ UNCHANGED <<file_exists, raw, wallet_id, cols, features, base_risk_score, is_anomaly,
                   cluster, cluster_risk_adjustment, final_risk_score>>

FeaturesFail ==
    /\ pc = "clean"
    /\ create_advanced_wallet_features(df_clean).raised
    /\ pc' = "features_error"
    /\ UNCHANGED <<file_exists, raw, df_clean, wallet_id, cols, features, base_risk_score,
                   is_anomaly, cluster, cluster_risk_adjustment, final_risk_score>>

Features ==
    /\ pc = "clean"
    /\ LET r == create_advanced_wallet_features(df_clean)
       IN  /\ ~r.raised
           /\ wallet_id' = r.wallet_id
           /\ features' = r.rows
           /\ cols' = IF r.rows = <<>> THEN {} ELSE FeatureNames
    /\ pc' = "features"
    /\ UNCHANGED <<file_exists, raw, df_clean, base_risk_score, is_anomaly, cluster,
                   cluster_risk_adjustment, final_risk_score>>

Score ==
    /\ pc = "features"
    /\ base_risk_score' = calculate_advanced_risk_score(features, cols)
    /\ pc' = "scored"
    /\ UNCHANGED <<file_exists, raw, df_clean, wallet_id, cols, features, is_anomaly, cluster,
                   cluster_risk_adjustment, final_risk_score>>

\* KMeans(n_clusters=5).fit_predict raises ValueError on fewer samples than clusters
RefineFail ==
    /\ pc = "scored"
    /\ Len(features) < n_clusters
    /\ pc' = "refine_error"
    /\ UNCHANGED <<file_exists, raw, df_clean, wallet_id, cols, features, base_risk_score,
                   is_anomaly, cluster, cluster_risk_adjustment, final_risk_score>>

Refined(df) ==
    /\ features' = df.features
    /\ base_risk_score' = df.base_risk_score
    /\ is_anomaly' = df.is_anomaly
    /\ cluster' = df.cluster
    /\ cluster_risk_adjustment' = df.cluster_risk_adjustment

Refine ==
    /\ pc = "scored"
    /\ Len(features) >= n_clusters
    /\ \E o \in sklearn_outputs(X_matrix(features, cols)) :
          Refined(apply_ml_refinements(features, cols, base_risk_score, o))
    /\ pc' = "refined"
    /\ UNCHANGED <<file_exists, raw, df_clean, wallet_id, cols, final_risk_score>>

Combined(r) ==
    /\ ~r.raised
    /\ final_risk_score' = r.result
    /\ base_risk_score' = r.base_risk_score

Combine ==
    /\ pc = "refined"
    /\ Combined(calculate_final_risk_score(base_risk_score, is_anomaly, cluster_risk_adjustment))
    /\ pc' = "final"
    /\ UNCHANGED <<file_exists, raw, df_clean, wallet_id, cols, features, is_anomaly, cluster,
                   cluster_risk_adjustment>>

CombineFail ==
    /\ pc = "refined"
    /\ calculate_final_risk_score(base_risk_score, is_anomaly, cluster_risk_adjustment).raised
    /\ pc' = "combine_error"
    /\ UNCHANGED <<file_exists, raw, df_clean, wallet_id, cols, features, base_risk_score,
                   is_anomaly, cluster, cluster_risk_adjustment, final_risk_score>>

(***************************************************************************)
(* Bounds and input domains                                                *)
(***************************************************************************)
MaxCells == 6
MaxScoreVal == 2
MaxWallets == 5
MaxFeat == 1
MaxCombineWallets == 2

\* calculate_advanced_risk_score as a function of the feature table: tables of
\* at most MaxCells cells over these column sets
ScoreColChoices ==
    {{"error_rate"},
     {"error_rate", "zero_value_ratio"},
     {"zero_value_ratio", "transaction_frequency"},
     {"avg_gas_used", "error_rate"},
     {"error_rate", "transaction_frequency", "avg_time_between_txns_hr"}}

ScoreVals == {Int2Num(v) : v \in 0..MaxScoreVal}

\* avg_gas_used is NaN for a wallet whose gasUsed cells are all missing
GasVals == {NaN, Int2Num(0), Int2Num(1)}

ScoreRows(fcols) ==
    {r \in [fcols -> ScoreVals \cup GasVals] :
        \A c \in fcols : IF c = "avg_gas_used" THEN r[c] \in GasVals ELSE r[c] \in ScoreVals}

InitScore ==
    /\ pc = "features"
    /\ file_exists = TRUE
    /\ raw = EmptyFrame
    /\ df_clean = EmptyFrame
    /\ cols \in ScoreColChoices
    /\ \E n \in 1..(MaxCells \div Cardinality(cols)) :
         /\ features \in [1..n -> ScoreRows(cols)]
         /\ wallet_id = [i \in 1..n |-> i]
    /\ base_risk_score = <<>>
    /\ is_anomaly = <<>>
    /\ cluster = <<>>
    /\ cluster_risk_adjustment = <<>>
    /\ final_risk_score = <<>>

NextScore == Score

SpecScore == InitScore /\ [][NextScore]_vars

\* scorer -> refiner -> combiner over a one-column table
InitPipeline ==
    /\ pc = "features"
    /\ file_exists = TRUE
    /\ raw = EmptyFrame
    /\ df_clean = EmptyFrame
    /\ cols = {"error_rate"}
    /\ \E n \in 1..MaxWallets :
         /\ features \in [1..n -> [cols -> {Int2Num(v) : v \in 0..MaxFeat} \cup {NaN}]]
         /\ wallet_id = [i \in 1..n |-> i]
    /\ base_risk_score = <<>>
    /\ is_anomaly = <<>>
    /\ cluster = <<>>
    /\ cluster_risk_adjustment = <<>>
    /\ final_risk_score = <<>>

NextPipeline == Score \/ RefineFail \/ Refine \/ Combine \/ CombineFail

SpecPipeline == InitPipeline /\ [][NextPipeline]_vars

\* calculate_final_risk_score as a function of its three input columns
BaseVals == {Rat(b, 2) : b \in {0, 1, 3, 500, 1600, 2000}}

AdjVals == {NaN} \cup {Rat(a, 2) : a \in 0..4}

InitCombine ==
    /\ pc = "refined"
    /\ file_exists = TRUE
    /\ raw = EmptyFrame
    /\ df_clean = EmptyFrame
    /\ cols = {}
    /\ \E n \in 1..MaxCombineWallets :
         /\ features = [i \in 1..n |-> <<>>]
         /\ wallet_id = [i \in 1..n |-> i]
         /\ base_risk_score \in [1..n -> BaseVals]
         /\ is_anomaly \in [1..n -> BOOLEAN]
         /\ cluster = [i \in 1..n |-> 0]
         /\ cluster_risk_adjustment \in [1..n -> AdjVals]
    /\ final_risk_score = <<>>

NextCombine == Combine \/ CombineFail

SpecCombine == InitCombine /\ [][NextCombine]_vars

\* loader -> feature engine over a csv of at most MaxTxns rows
MaxTxns == 2

ColumnChoices ==
    {RowFields} \cup {RowFields \ {c} : c \in {"value", "timeStamp", "functionName",
                                               "wallet_address", "to", "isError"}}
                \cup {RowFields \ {"gasUsed", "gasPrice"}}

\* raw rows: who sent what to whom, with a value that parses or not ...
AddressRows ==
    [wallet_address : {"a", "b"}, from : {"a", "b"}, to : {"a", "c"},
     value : {"1", "n/a"}, gasUsed : {"2"}, gasPrice : {"1"},
     timeStamp : {0}, isError : {0}, functionName : {"mint"}]

\* ... and when, at what gas and with what outcome (an hour or 50 hours after
\* the rows above, zero value, function name missing)
ActivityRows ==
    [wallet_address : {"a"}, from : {"a"}, to : {"c"},
     value : {"0"}, gasUsed : {"2", Null}, gasPrice : {"1"},
     timeStamp : {3600, 180000}, isError : {0, 1}, functionName : {Null}]

\* a cell of a column the csv lacks is never read; it is fixed here
blank(r, columns) == [c \in RowFields |-> IF c \in columns THEN r[c] ELSE Null]

InitFeatures ==
    /\ pc = "start"
    /\ file_exists \in BOOLEAN
    /\ \E columns \in ColumnChoices : \E n \in 1..MaxTxns :
         \E rows \in [1..n -> AddressRows \cup ActivityRows] :
            raw = IF file_exists
                  THEN [columns |-> columns, rows |-> [i \in 1..n |-> blank(rows[i], columns)]]
                  ELSE EmptyFrame
    /\ df_clean = EmptyFrame
    /\ wallet_id = <<>>
    /\ cols = {}
    /\ features = <<>>
    /\ base_risk_score = <<>>
    /\ is_anomaly = <<>>
    /\ cluster = <<>>
    /\ cluster_risk_adjustment = <<>>
    /\ final_risk_score = <<>>

NextFeatures == LoadMissing \/ LoadFail \/ Load \/ FeaturesFail \/ Features

SpecFeatures == InitFeatures /\ [][NextFeatures]_vars

(***************************************************************************)
(* Properties                                                              *)
(***************************************************************************)
InUnit(x) == ~x.nan /\ RLe(Zero, x) /\ RLe(x, Int2Num(1))

\* C1: for every population that reaches calculate_final_risk_score, also one
\* whose base_risk_score is 0 throughout, the call does not fail and every
\* final_risk_score is an integer between 0 and 1000.
C1_FinalScoreAlwaysProduced ==
    /\ pc # "combine_error"
    /\ pc = "final" =>
          /\ Len(final_risk_score) = Len(wallet_id)
          /\ \A i \in DOMAIN final_risk_score : final_risk_score[i] \in 0..1000

\* the value the combiner is to round: base * (1.5 if anomalous) * adjustment,
\* clamped once to [0, 1000]
ClampedProduct(i) ==
    RMin(RMax(RMul(RMul(base_risk_score[i],
                        IF is_anomaly[i] THEN Rat(3, 2) ELSE Int2Num(1)),
                   cluster_risk_adjustment[i]),
              Zero),
         Int2Num(1000))

\* k is an integer nearest to x
Nearest(k, x) == ~x.nan /\ 2 * Abs(k * x.d - x.n) <= x.d

\* C2: final_risk_score is the clamped product base * (1.5 if anomalous) *
\* adjustment rounded to the nearest integer, the clamp being applied once, after
\* both multipliers.
C2_FinalIsRoundedClampedProduct ==
    pc = "final" =>
        \A i \in DOMAIN final_risk_score : Nearest(final_risk_score[i], ClampedProduct(i))

\* an anomalous wallet whose boosted score exceeds 1000 and whose adjustment
\* brings it back below 1000
C2_Witness ==
    /\ pc = "final"
    /\ \E i \in DOMAIN final_risk_score :
          /\ is_anomaly[i]
          /\ RGt(RMul(base_risk_score[i], Rat(3, 2)), Int2Num(1000))
          /\ RGt(Int2Num(1), cluster_risk_adjustment[i])
          /\ final_risk_score[i] > 0
          /\ final_risk_score[i] < 1000

Exceeds(srow, col, threshold) == col \in cols /\ RGt(srow[col], threshold)

\* the product of the boosts a scaled row earns
BoostFactor(srow) ==
    RMul(RMul(IF Exceeds(srow, "error_rate", Rat(1, 10)) THEN Rat(13, 10) ELSE Int2Num(1),
              IF Exceeds(srow, "zero_value_ratio", Rat(1, 2)) THEN Rat(12, 10) ELSE Int2Num(1)),
         IF Exceeds(srow, "transaction_frequency", Rat(95, 100)) THEN Rat(14, 10) ELSE Int2Num(1))

BoostsMultiply(scaled) ==
    \A i \in DOMAIN scaled :
        /\ base_risk_score[i] =
              RMin(RMul(RMul(weighted_sum(scaled[i], cols), BoostFactor(scaled[i])),
                        Int2Num(1000)),
                   Int2Num(1000))
        /\ ( /\ Exceeds(scaled[i], "error_rate", Rat(1, 10))
             /\ Exceeds(scaled[i], "zero_value_ratio", Rat(1, 2))
             /\ ~Exceeds(scaled[i], "transaction_frequency", Rat(95, 100)) )
           => base_risk_score[i] =
                 RMin(RMul(weighted_sum(scaled[i], cols), Int2Num(1560)), Int2Num(1000))

\* C3: the boosts are independent and multiplicative on the un-clamped weighted
\* sum: x1.3 iff scaled error_rate > 0.1, x1.2 iff scaled zero_value_ratio > 0.5,
\* x1.4 iff scaled transaction_frequency > 0.95 (x1.56 for the first two alone),
\* and only then is the score multiplied by 1000 and capped at 1000.
C3_BoostsIndependentMultiplicative ==
    pc = "scored" => BoostsMultiply(features_scaled(features, cols))

BothBoosts(scaled) ==
    \E i \in DOMAIN scaled :
        /\ Exceeds(scaled[i], "error_rate", Rat(1, 10))
        /\ Exceeds(scaled[i], "zero_value_ratio", Rat(1, 2))
        /\ weighted_sum(scaled[i], cols).n > 0
        /\ base_risk_score[i] = RMul(weighted_sum(scaled[i], cols), Int2Num(1560))

\* a wallet that earns the error-rate and the zero-value boost on a positive sum
C3_Witness == pc = "scored" /\ BothBoosts(features_scaled(features, cols))

WeightsSumToOne ==
    RSum([c \in Components |-> risk_components[c].weight], Components) = Int2Num(1)

ScoreBounded(scaled) ==
    \A i \in DOMAIN scaled :
        /\ \A c \in Components :
              /\ available_features(cols, c) # {} =>
                    InUnit(NanMean(scaled[i], available_features(cols, c)))
              /\ available_features(cols, c) = {} => component_score(scaled[i], cols, c) = Zero
        /\ InUnit(weighted_sum(scaled[i], cols))
        /\ ~base_risk_score[i].nan
        /\ RLe(Zero, base_risk_score[i])
        /\ RLe(base_risk_score[i], Int2Num(1000))

\* C4: the five weights sum to 1, every component mean of scaled features lies
\* in [0, 1] (a component without an available feature contributes 0), the
\* weighted sum lies in [0, 1], and base_risk_score lies in [0, 1000].
C4_BaseScoreInRange ==
    /\ WeightsSumToOne
    /\ pc = "scored" => ScoreBounded(features_scaled(features, cols))

Capped(scaled) ==
    \E i \in DOMAIN scaled :
        /\ RGt(adjusted_score(scaled[i], cols), Int2Num(1))
        /\ base_risk_score[i] = Int2Num(1000)

\* a wallet whose boosted sum exceeds 1 and is capped at 1000
C4_Witness == pc = "scored" /\ Capped(features_scaled(features, cols))

\* C5: on a population of identical feature vectors the refiner gives every
\* wallet cluster_risk_adjustment = 1.0.
C5_IdenticalVectorsAdjustmentOne ==
    (pc = "refined" /\ \A i, j \in DOMAIN features : features[i] = features[j])
        => \A i \in DOMAIN cluster_risk_adjustment : cluster_risk_adjustment[i] = Int2Num(1)

Feature(k, f) == features[k][f]

\* C6: activity_span_days >= 1 on every row of the wallet table, and a wallet
\* with exactly one transaction has avg_time_between_txns_hr = 0,
\* activity_span_days = 1 and transaction_frequency = 1.
C6_ActivitySpanFloor ==
    pc = "features" =>
        \A k \in DOMAIN features :
            /\ RLe(Int2Num(1), Feature(k, "activity_span_days"))
            /\ Feature(k, "total_transactions") = Int2Num(1) =>
                  /\ Feature(k, "avg_time_between_txns_hr") = Zero
                  /\ Feature(k, "activity_span_days") = Int2Num(1)
                  /\ Feature(k, "transaction_frequency") = Int2Num(1)

\* a wallet with two transactions an hour apart, its span floored to one day
C6_Witness ==
    /\ pc = "features"
    /\ \E k \in DOMAIN features :
          /\ Feature(k, "total_transactions") = Int2Num(2)
          /\ Feature(k, "avg_time_between_txns_hr") = Int2Num(1)
          /\ Feature(k, "activity_span_days") = Int2Num(1)
          /\ Feature(k, "transaction_frequency") = Int2Num(2)

\* C7: the wallet table has one row per distinct non-null identifier and every
\* numeric feature of every row is a defined number.
C7_FeaturesUniqueAndDefined ==
    pc = "features" =>
        /\ \A k, l \in DOMAIN wallet_id : wallet_id[k] = wallet_id[l] => k = l
        /\ {wallet_id[k] : k \in DOMAIN wallet_id} =
              {df_clean.rows[i][wallet_col(df_clean)] : i \in DOMAIN df_clean.rows} \ {Null}
        /\ \A k \in DOMAIN features : \A f \in FeatureNames : ~Feature(k, f).nan

\* C8: with the input dataset present, a missing column never ends the run in an
\* error: the loader and the feature engine fall back to defaults and the wallet
\* table is produced.
C8_MissingColumnsDegrade ==
    /\ pc \notin {"load_error", "features_error"}
    /\ pc = "empty" => ~file_exists

ReceivedInTable(w) ==
    Cardinality({i \in DOMAIN df_clean.rows :
                    "to" \in df_clean.columns /\ df_clean.rows[i].to = w})

\* C9: received_transactions counts the rows of the whole cleaned table whose
\* `to` is the wallet, and send_receive_ratio = sent_transactions /
\* max(received_transactions, 1) (= sent_transactions when nothing was received).
C9_ReceivedIsGlobal ==
    pc = "features" =>
        \A k \in DOMAIN features :
            /\ Feature(k, "received_transactions") = Int2Num(ReceivedInTable(wallet_id[k]))
            /\ Feature(k, "send_receive_ratio") =
                  RDiv(Feature(k, "sent_transactions"),
                       Int2Num(Max(ReceivedInTable(wallet_id[k]), 1)))
            /\ ReceivedInTable(wallet_id[k]) = 0 =>
                  Feature(k, "send_receive_ratio") = Feature(k, "sent_transactions")

\* a wallet that received more rows than its own partition holds, and one that
\* received nothing
C9_Witness ==
    /\ pc = "features"
    /\ \E k \in DOMAIN features :
          RGt(Feature(k, "received_transactions"), Feature(k, "total_transactions"))
    /\ \E k \in DOMAIN features :
          /\ Feature(k, "received_transactions") = Zero
          /\ RGt(Feature(k, "sent_transactions"), Zero)

\* C10: each stage only adds its own columns: the scorer and the refiner leave
\* wallet_id and the feature columns as they were, the refiner leaves
\* base_risk_score as it was, and the combiner leaves base_risk_score,
\* is_anomaly, cluster and cluster_risk_adjustment as they were.
C10_StagesOnlyAppend ==
    [][ /\ (pc = "features" /\ pc' = "scored") =>
              /\ wallet_id' = wallet_id
              /\ cols' = cols
              /\ features' = features
        /\ (pc = "scored" /\ pc' = "refined") =>
              /\ wallet_id' = wallet_id
              /\ cols' = cols
              /\ features' = features
              /\ base_risk_score' = base_risk_score
        /\ (pc = "refined" /\ pc' = "final") =>
              /\ wallet_id' = wallet_id
              /\ cols' = cols
              /\ features' = features
              /\ base_risk_score' = base_risk_score
              /\ is_anomaly' = is_anomaly
              /\ cluster' = cluster
              /\ cluster_risk_adjustment' = cluster_risk_adjustment ]_vars

\* the combiner ran on an anomalous wallet with a positive base score whose
\* final score differs from it, in a table that holds a NaN feature
C10_Witness ==
    /\ pc = "final"
    /\ \E i \in DOMAIN features : \E c \in cols : features[i][c].nan
    /\ \E i \in DOMAIN final_risk_score :
          /\ is_anomaly[i]
          /\ base_risk_score[i].n > 0
          /\ Int2Num(final_risk_score[i]) # base_risk_score[i]

====
